---- MODULE Spec2Model ----
(***************************************************************************)
(* A model of the override engine of @mantajs/dashboard:                   *)
(*   - src/src/vite-plugin/index.ts : customDashboardPlugin, in the        *)
(*     revision with the fs.watch coordinator (lines 224-612);             *)
(*   - src/unnamed/part_000         : mergeExtensionRoutes.                 *)
(*                                                                         *)
(* A JavaScript string is a sequence of UTF-16 code units, so that         *)
(* Array.prototype.sort(), String.split, path.basename, path.extname and   *)
(* the regular expressions of the source are computed, not assumed.        *)
(***************************************************************************)
EXTENDS Integers, Sequences, FiniteSets, TLC

(***************************************************************************)
(* String literals of the source and of the modelled file trees.           *)
(***************************************************************************)
SLASH == <<47>>                                   \* "/"
BACKSLASH == <<92>>                               \* "\\"
DOT == <<46>>                                     \* "."
STR_index == <<105, 110, 100, 101, 120>>          \* "index"
STR_node_modules == <<110, 111, 100, 101, 95, 109, 111, 100, 117, 108, 101, 115>>
STR_tsx == <<116, 115, 120>>
STR_ts == <<116, 115>>
STR_jsx == <<106, 115, 120>>
STR_js == <<106, 115>>
STR_mts == <<109, 116, 115>>
STR_mjs == <<109, 106, 115>>
STR_css == <<99, 115, 115>>
STR_dashboard_src == <<47, 100, 97, 115, 104, 98, 111, 97, 114, 100, 47, 115, 114, 99, 47>>
EMPTY == << >>                                    \* ""
NULL == <<-1>>                                    \* null / undefined (no code unit is negative)

\* const COMPONENT_EXTENSIONS = [".tsx", ".ts", ".jsx", ".js", ".mts", ".mjs"]
COMPONENT_EXT_SET ==
  {DOT \o STR_tsx, DOT \o STR_ts, DOT \o STR_jsx, DOT \o STR_js, DOT \o STR_mts, DOT \o STR_mjs}

(***************************************************************************)
(* String helpers.                                                         *)
(***************************************************************************)
\* s.startsWith(p)
StartsWith(s, p) == Len(s) >= Len(p) /\ SubSeq(s, 1, Len(p)) = p

\* s.endsWith(p)
EndsWith(s, p) == Len(s) >= Len(p) /\ SubSeq(s, Len(s) - Len(p) + 1, Len(s)) = p

\* s.includes(p)
Includes(s, p) == \E i \in 1..(Len(s) - Len(p) + 1) : SubSeq(s, i, i + Len(p) - 1) = p

\* s.replace(/\\/g, "/")
ReplaceBackslashes(s) == [i \in 1..Len(s) |-> IF s[i] = BACKSLASH[1] THEN SLASH[1] ELSE s[i]]

\* The index of the last occurrence of the one-unit string c in s, 0 if none.
LastIndexOf(s, c) ==
  LET hits == {i \in 1..Len(s) : s[i] = c[1]}
  IN IF hits = {} THEN 0 ELSE CHOOSE i \in hits : \A j \in hits : j <= i

\* The index of the first occurrence of the one-unit string c in s, 0 if none.
IndexOf(s, c) ==
  LET hits == {i \in 1..Len(s) : s[i] = c[1]}
  IN IF hits = {} THEN 0 ELSE CHOOSE i \in hits : \A j \in hits : i <= j

\* normalized.split("/").filter(Boolean): the non-empty segments of s.
RECURSIVE SplitSegments(_)
SplitSegments(s) ==
  IF s = EMPTY THEN << >>
  ELSE LET i == IndexOf(s, SLASH)
       IN IF i = 0 THEN <<s>>
          ELSE IF i = 1 THEN SplitSegments(SubSeq(s, 2, Len(s)))
          ELSE <<SubSeq(s, 1, i - 1)>> \o SplitSegments(SubSeq(s, i + 1, Len(s)))

\* path.basename(p) on a POSIX path without a trailing slash.
Basename(p) == SubSeq(p, LastIndexOf(p, SLASH) + 1, Len(p))

\* path.dirname-relative directory segments of p (everything but the base name).
DirSegments(p) ==
  LET parts == SplitSegments(p)
  IN IF parts = << >> THEN << >> ELSE SubSeq(parts, 1, Len(parts) - 1)

\* path.extname(p): from the last "." of the base name to its end; "" when the
\* base name has no "." or its only "." is its first character.
Extname(p) ==
  LET b == Basename(p)
      i == LastIndexOf(b, DOT)
  IN IF i <= 1 THEN EMPTY ELSE SubSeq(b, i, Len(b))

\* name.replace(/\.(tsx?|jsx?|mts|mjs)$/, "")
StripExt(name) ==
  LET sufs == {e \in COMPONENT_EXT_SET : EndsWith(name, e)}
  IN IF sufs = {} THEN name
     ELSE LET e == CHOOSE x \in sufs : TRUE
          IN SubSeq(name, 1, Len(name) - Len(e))

\* path.resolve(dir, rel) for an absolute dir and a relative rel without "." / "..".
Resolve(dir, rel) == dir \o SLASH \o rel

\* a < b in the order of Array.prototype.sort() without a comparator
\* (strings compared by UTF-16 code units, a proper prefix first).
LexLess(a, b) ==
  \/ \E i \in 1..Len(a) :
        /\ i <= Len(b)
        /\ SubSeq(a, 1, i - 1) = SubSeq(b, 1, i - 1)
        /\ a[i] < b[i]
  \/ Len(a) < Len(b) /\ SubSeq(b, 1, Len(a)) = a

\* Array.prototype.sort() on an array of strings.
RECURSIVE SortInsert(_, _)
SortInsert(sorted, x) ==
  IF sorted = << >> THEN <<x>>
  ELSE IF LexLess(x, Head(sorted)) THEN <<x>> \o sorted
  ELSE <<Head(sorted)>> \o SortInsert(Tail(sorted), x)

RECURSIVE Sort(_)
Sort(arr) ==
  IF arr = << >> THEN << >>
  ELSE SortInsert(Sort(SubSeq(arr, 1, Len(arr) - 1)), arr[Len(arr)])

(***************************************************************************)
(* getComponentName (the Identifier Resolver).                             *)
(***************************************************************************)
\* A resolver without the `baseName === "index"` rule.
getComponentNameOfFile(filePath) ==
  LET parts == SplitSegments(ReplaceBackslashes(filePath))
  IN IF Len(parts) = 0 THEN NULL
     ELSE IF StripExt(parts[Len(parts)]) = EMPTY THEN NULL
     ELSE StripExt(parts[Len(parts)])

getComponentName(filePath) ==
  LET normalized == ReplaceBackslashes(filePath)
      parts == SplitSegments(normalized)
  IN IF Len(parts) = 0 THEN NULL
     ELSE LET fileName == parts[Len(parts)]
              baseName == StripExt(fileName)
          IN IF baseName = EMPTY THEN NULL
             ELSE IF baseName = STR_index
                  THEN (IF Len(parts) >= 2 THEN parts[Len(parts) - 1] ELSE NULL)
             ELSE baseName

(***************************************************************************)
(* The modelled file trees.                                                *)
(***************************************************************************)
\* path.resolve(process.cwd(), "src/admin/components"), shortened to "/c".
componentsDir == <<47, 99>>

\* findDashboardSrc(): ".../dashboard/src", shortened to "/dashboard/src".
dashboardSrc == SubSeq(STR_dashboard_src, 1, Len(STR_dashboard_src) - 1)

N_x == <<120>>                                    \* "x"
N_z == <<122>>                                    \* "z"
D_a == <<97>>                                     \* "a"
D_b == <<98>>                                     \* "b"

\* Files a user may have under the override directory (relative names, as
\* fs.watch reports them).
F_a_x_tsx == D_a \o SLASH \o N_x \o DOT \o STR_tsx           \* "a/x.tsx"
F_b_x_tsx == D_b \o SLASH \o N_x \o DOT \o STR_tsx           \* "b/x.tsx"
F_z_tsx == N_z \o DOT \o STR_tsx                             \* "z.tsx": no upstream component z
F_x_index_tsx == N_x \o SLASH \o STR_index \o DOT \o STR_tsx \* "x/index.tsx": a barrel
F_x_css == N_x \o DOT \o STR_css                             \* "x.css": not a component extension

OverrideFileNames == {F_a_x_tsx, F_b_x_tsx, F_z_tsx, F_x_index_tsx, F_x_css}

\* The upstream source tree (relative to dashboardSrc).
U_x_x_tsx == N_x \o SLASH \o N_x \o DOT \o STR_tsx           \* "x/x.tsx"
U_x_index_tsx == N_x \o SLASH \o STR_index \o DOT \o STR_tsx \* "x/index.tsx"
U_x_mts == N_x \o DOT \o STR_mts                             \* "x.mts"

UpstreamFileNames == {U_x_x_tsx, U_x_index_tsx, U_x_mts}

(***************************************************************************)
(* collectComponentFiles on a tree given as the set of its files' paths    *)
(* relative to the root: a file is returned when no directory on its way   *)
(* and not the file itself is hidden or named node_modules, its directory  *)
(* is at most MaxScanDepth levels below the root and its extension is a    *)
(* component extension.                                                    *)
(***************************************************************************)
MaxScanDepth == 20

\* A scan that skips every entry whose name has a dot anywhere.
SkippedDotted(name) ==
  (\E i \in 1..Len(name) : name[i] = DOT[1]) \/ name = STR_node_modules

SkippedEntry(name) == StartsWith(name, DOT) \/ name = STR_node_modules

collectComponentFiles(dir, tree) ==
  {Resolve(dir, f) : f \in
     {g \in tree :
        /\ \A i \in 1..Len(SplitSegments(g)) : ~SkippedEntry(SplitSegments(g)[i])
        /\ Len(DirSegments(g)) <= MaxScanDepth
        /\ Extname(Basename(g)) \in COMPONENT_EXT_SET}}

\* The orders in which readdir may hand a set of files to the caller: here
\* ascending and descending by path (any order-dependence of a build shows
\* on these two).
RECURSIVE SetToSeq(_)
SetToSeq(S) ==
  IF S = {} THEN << >>
  ELSE LET x == CHOOSE y \in S : \A z \in S : z = y \/ LexLess(y, z)
       IN <<x>> \o SetToSeq(S \ {x})

Reverse(s) == [i \in 1..Len(s) |-> s[Len(s) + 1 - i]]

ReaddirOrders(S) == {SetToSeq(S), Reverse(SetToSeq(S))}

(***************************************************************************)
(* The Override Registry.                                                  *)
(***************************************************************************)
\* A name that keeps the extension.
overrideNameUnstripped(fullPath) == Basename(fullPath)

\* const name = path.basename(fullPath).replace(/\.(tsx?|jsx?|mts|mjs)$/, "")
overrideName(fullPath) == StripExt(Basename(fullPath))

\* A registry that admits every non-empty name.
isOverrideEntryAnyName(fullPath) == overrideName(fullPath) # EMPTY

\* if (name && name !== "index")
isOverrideEntry(fullPath) ==
  overrideName(fullPath) # EMPTY /\ overrideName(fullPath) # STR_index

\* Map.prototype.set
MapSet(map, k, v) == [x \in (DOMAIN map) \cup {k} |-> IF x = k THEN v ELSE map[x]]

\* for (const fp of files) { ...; overridesByName.set(n, fp) }
RECURSIVE fillOverrides(_, _)
fillOverrides(map, files) ==
  IF files = << >> THEN map
  ELSE LET fp == Head(files)
       IN fillOverrides(IF isOverrideEntry(fp) THEN MapSet(map, overrideName(fp), fp) ELSE map,
                        Tail(files))

\* The files in the order readdir listed them (a build without .sort()).
unsortedOverrideFiles(listing) == listing

\* collectComponentFiles(componentsDir).sort(), listed by readdir in `listing`
sortedOverrideFiles(listing) == Sort(listing)

\* The registry built from a directory listing (initial scan and re-scan).
scanOverrides(listing) == fillOverrides(<< >>, sortedOverrideFiles(listing))

\* new Set(overridesByName.values())
MapValues(map) == {map[k] : k \in DOMAIN map}

\* A re-scan that keeps only the files the map ends up with.
rescanKnownWinners(listing) == MapValues(scanOverrides(listing))

\* knownOverrideFiles after a re-scan: every file that was set into the map.
rescanKnownFiles(listing) == {listing[i] : i \in {j \in 1..Len(listing) : isOverrideEntry(listing[j])}}

\* dashboardComponents: the logical names of the upstream source files.
dashboardComponents ==
  {getComponentName(f) : f \in collectComponentFiles(dashboardSrc, UpstreamFileNames)} \ {NULL, EMPTY}

(***************************************************************************)
(* Bounds of the model.                                                    *)
(***************************************************************************)
MaxFiles == 2        \* files under the override directory at one time
MaxInflight == 2     \* timer callbacks awaiting server.restart() at one time

(***************************************************************************)
(* The state of one plugin instance (the closure of customDashboardPlugin) *)
(* and of its environment.                                                 *)
(***************************************************************************)
VARIABLES
  disk,                \* the files under componentsDir (relative names)
  dirExists,           \* fs.existsSync(componentsDir)
  overridesByName,     \* Map<string, string>: name -> full path
  knownOverrideFiles,  \* Set<string> of full paths
  currentServer,       \* 0 for null, else the server instance
  watcherCreated,      \* boolean
  watchers,            \* the fs.watch calls made so far
  debounceTimer,       \* "null", or the state of the handle's timer: "pending" / "fired"
  timerQueue,          \* the armed setTimeout callbacks (their closures), oldest first
  awaiting,            \* timer callbacks suspended at `await currentServer.restart()`
  fsEvent,             \* the filename of the fs.watch event handled in the last step
  wsOut,               \* the message sent on a server's ws in the last step
  invalidated,         \* the modules invalidated in the last step
  warnings,            \* the collision diagnostics logged in the last step
  lastLoad,            \* the module-load request answered in the last step
  rebuilt,             \* the scan of the last step: the initial one, or the fired closure
  cancelled,           \* whether clearTimeout cancelled a pending timer in the last step
  errorLogged          \* whether the last step logged "Restart failed"

sessionVars == <<disk, dirExists, overridesByName, knownOverrideFiles, currentServer,
                 watcherCreated, watchers, debounceTimer, timerQueue, awaiting, fsEvent, wsOut,
                 invalidated, warnings, lastLoad, rebuilt, cancelled, errorLogged>>

\* The state of one call of mergeExtensionRoutes.
VARIABLES
  staticRoutes,        \* the first argument
  extensionRoutes,     \* the second argument
  result,              \* the local `result`; the returned list once mergePc = "returned"
  extIndex,            \* the position of the for loop in extensionRoutes
  mergePc,             \* "idle", "called", "loop", "returned"
  heap,                \* the arrays and route objects in memory, by address
  staticRef,           \* the address of the array passed as staticRoutes
  extRef,              \* the address of the array passed as extensionRoutes
  resultRef            \* the address of the array `result`, 0 before line 12

mergeVars == <<staticRoutes, extensionRoutes, result, extIndex, mergePc, heap, staticRef,
               extRef, resultRef>>

\* The state of one call of getComponentName.
VARIABLES
  resolverPath,        \* the argument filePath
  resolvedName,        \* the returned name once resolverPc = "returned"
  resolverPc           \* "idle", "called", "returned"

resolverVars == <<resolverPath, resolvedName, resolverPc>>

\* The state of one call of collectComponentFiles(root) on a directory structure.
VARIABLES
  scanFs,              \* the directory structure: directory -> what readdirSync gives
  scanned,             \* the returned array once scanPc = "returned"
  scanPc               \* "idle", "called", "returned"

scanVars == <<scanFs, scanned, scanPc>>

\* Messages on the client channel of server `to`.
NoMsg == [type |-> "none", event |-> "", updates |-> {}, to |-> 0]
ForceReload(server) ==
  [type |-> "custom", event |-> "mantajs:force-reload", updates |-> {}, to |-> server]
UpdateMsg(server, mods) == [type |-> "update", event |-> "", updates |-> mods, to |-> server]

\* `undefined` as the return value of a hook.
UNDEFINED == <<-2>>

\* A module-load request and the hook's answer to it.
NoLoad == [path |-> NULL, entry |-> NULL, result |-> NULL]

\* What moduleGraph.getModulesByFile(fullPath) may return: no module, one or two.
ModuleSets(fullPath) == {{}, {<<fullPath, "?a">>}, {<<fullPath, "?a">>, <<fullPath, "?b">>}}

\* A server instance other than `server` (instances are told apart, not counted).
freshServer(server) == IF server = 1 THEN 2 ELSE 1

\* The steps that leave the outputs of the last step empty.
\* The closure of a timer callback: the callback's locals, and what happened to
\* the file (`change`).
Closure(name, fileExists, fullPath, change) ==
  [name |-> name, fileExists |-> fileExists, fullPath |-> fullPath, change |-> change]

NoRebuild == Closure(NULL, FALSE, NULL, "none")
InitialScan == Closure(NULL, FALSE, NULL, "initial")

Quiet ==
  /\ rebuilt' = NoRebuild
  /\ cancelled' = FALSE
  /\ errorLogged' = FALSE
  /\ fsEvent' = NULL
  /\ wsOut' = NoMsg
  /\ invalidated' = {}
  /\ warnings' = {}
  /\ lastLoad' = NoLoad

(***************************************************************************)
(* The esbuild onLoad hook for component files.                            *)
(***************************************************************************)
\* build.onLoad({ filter: /\.(tsx?|jsx?)$/ }, ...)
componentFilter(path) ==
  \E e \in {DOT \o STR_tsx, DOT \o STR_ts, DOT \o STR_jsx, DOT \o STR_js} : EndsWith(path, e)

\* normalized.includes("/dashboard/src/")
inDashboardSrc(path) == Includes(ReplaceBackslashes(path), STR_dashboard_src)

\* fileName.startsWith("index.")
isBarrelRequest(path) == StartsWith(Basename(path), STR_index \o DOT)

\* The module-load requests of the model: the upstream files and one file
\* outside the upstream tree.
OutsideRequest == <<47, 111, 47>> \o N_x \o DOT \o STR_tsx       \* "/o/x.tsx"
LoadRequests == {Resolve(dashboardSrc, u) : u \in UpstreamFileNames} \cup {OutsideRequest}

STR_dashboard_dist == <<47, 100, 97, 115, 104, 98, 111, 97, 114, 100, 47, 100, 105, 115, 116, 47>>   \* "/dashboard/dist/"
STR_dist_app == <<47, 100, 105, 115, 116, 47, 97, 112, 112, 46>>   \* "/dist/app."
STR_src_app_tsx == <<47, 115, 114, 99, 47, 97, 112, 112, 46, 116, 115, 120>>   \* "/src/app.tsx"
STR_app == <<97, 112, 112, 46>>   \* "app."

\* build.onLoad({ filter: /app\.(mjs|js)$/ }, ...)
entryFilter(path) == \E e \in {STR_app \o STR_mjs, STR_app \o STR_js} : EndsWith(path, e)

\* normalized.includes("/dashboard/dist/")
inDashboardDist(path) == Includes(ReplaceBackslashes(path), STR_dashboard_dist)

\* normalized.replace(/\/dist\/app\.(mjs|js)$/, "/src/app.tsx")
srcEntryOf(path) ==
  LET normalized == ReplaceBackslashes(path)
      sufs == {e \in {STR_dist_app \o STR_mjs, STR_dist_app \o STR_js} : EndsWith(normalized, e)}
  IN IF sufs = {} THEN normalized
     ELSE LET e == CHOOSE x \in sufs : TRUE
          IN SubSeq(normalized, 1, Len(normalized) - Len(e)) \o STR_src_app_tsx

\* The requests for the dashboard's entry: the dist entry in both forms and an
\* app.js outside the dashboard.
EntryRequests ==
  {STR_dashboard_dist \o STR_app \o STR_mjs,       \* "/dashboard/dist/app.mjs"
   STR_dashboard_dist \o STR_app \o STR_js,        \* "/dashboard/dist/app.js"
   <<47, 111, 47>> \o STR_app \o STR_js}           \* "/o/app.js"

\* What the hooks compute from the requested path alone, computed once per path.
requestFacts ==
  [path \in LoadRequests \cup EntryRequests |->
     [filter |-> componentFilter(path),
      inSrc |-> inDashboardSrc(path),
      barrel |-> isBarrelRequest(path),
      componentName |-> getComponentName(path),
      entryFilter |-> entryFilter(path),
      inDist |-> inDashboardDist(path),
      srcEntry |-> srcEntryOf(path)]]

\* An entry hook without `if (overrides.size === 0) return undefined`.
onLoadEntryAlways(overrides, path, readable) ==
  IF ~requestFacts[path].entryFilter THEN NULL
  ELSE IF ~requestFacts[path].inDist THEN NULL
  ELSE IF ~readable THEN NULL
  ELSE requestFacts[path].srcEntry

\* lines 400-417: the entry hook's answer, NULL when it declines, else the
\* source entry whose contents it returns; `readable` tells whether
\* fs.readFileSync(srcEntry) succeeds.
onLoadEntry(overrides, path, readable) ==
  IF ~requestFacts[path].entryFilter THEN NULL
  ELSE IF Cardinality(DOMAIN overrides) = 0 THEN NULL
  ELSE IF ~requestFacts[path].inDist THEN NULL
  ELSE IF ~readable THEN NULL
  ELSE requestFacts[path].srcEntry

\* A hook that looks the requested file's name up as it stands, without
\* getComponentName.
onLoadByFileName(overrides, path) ==
  IF Basename(path) \in DOMAIN overrides THEN ReplaceBackslashes(overrides[Basename(path)])
  ELSE NULL

\* A hook without the `fileName.startsWith("index.")` return.
onLoadWithBarrels(overrides, path) ==
  IF ~requestFacts[path].filter \/ ~requestFacts[path].inSrc THEN NULL
  ELSE LET componentName == requestFacts[path].componentName
       IN IF componentName # NULL /\ componentName # EMPTY /\ componentName \in DOMAIN overrides
          THEN ReplaceBackslashes(overrides[componentName])
          ELSE NULL

\* The hook's answer: NULL when it declines (filter miss or `return undefined`),
\* else the override path the re-export names.
onLoadComponent(overrides, path) ==
  IF ~requestFacts[path].filter THEN NULL
  ELSE IF Cardinality(DOMAIN overrides) = 0 THEN NULL
  ELSE IF ~requestFacts[path].inSrc THEN NULL
  ELSE IF requestFacts[path].barrel THEN NULL
  ELSE LET componentName == requestFacts[path].componentName
       IN IF componentName # NULL /\ componentName # EMPTY /\ componentName \in DOMAIN overrides
          THEN ReplaceBackslashes(overrides[componentName])
          ELSE NULL

(***************************************************************************)
(* Scans of the override directory, computed once per tree and listing.    *)
(***************************************************************************)
\* The collision diagnostics a scan logs: the scan loops of this revision
\* (lines 346-351 and 522-528) log none.
scanWarnings(listing) == {}

scanResults ==
  [tree \in SUBSET OverrideFileNames |->
     [listing \in ReaddirOrders(collectComponentFiles(componentsDir, tree)) |->
        [overrides |-> scanOverrides(listing),
         known |-> rescanKnownFiles(listing),
         warnings |-> scanWarnings(listing)]]]

(***************************************************************************)
(* Construction: customDashboardPlugin().                                  *)
(***************************************************************************)
SessionInit ==
  /\ disk \in {d \in SUBSET OverrideFileNames : Cardinality(d) <= MaxFiles}
  /\ dirExists \in {TRUE} \cup (IF disk = {} THEN {FALSE} ELSE {})
  /\ \E listing \in DOMAIN scanResults[disk] :
       /\ overridesByName = IF dirExists THEN scanResults[disk][listing].overrides ELSE << >>
       /\ warnings = IF dirExists THEN scanResults[disk][listing].warnings ELSE {}
  /\ knownOverrideFiles = MapValues(overridesByName)
  /\ currentServer = 0
  /\ watcherCreated = FALSE
  /\ watchers = 0
  /\ debounceTimer = "null"
  /\ timerQueue = << >>
  /\ awaiting = 0
  /\ fsEvent = NULL
  /\ wsOut = NoMsg
  /\ invalidated = {}
  /\ lastLoad = NoLoad
  /\ rebuilt = InitialScan
  /\ cancelled = FALSE
  /\ errorLogged = FALSE

(***************************************************************************)
(* configureServer(server).                                                *)
(***************************************************************************)
\* A configureServer that calls fs.watch whenever the directory exists.
configureServerAlwaysWatches(server) ==
  /\ currentServer' = server
  /\ watcherCreated' = IF ~dirExists THEN watcherCreated ELSE TRUE
  /\ watchers' = IF dirExists THEN watchers + 1 ELSE watchers

configureServer(server) ==
  /\ currentServer' = server
  /\ watcherCreated' = IF ~dirExists THEN watcherCreated ELSE TRUE
  /\ watchers' = IF dirExists /\ ~watcherCreated THEN watchers + 1 ELSE watchers

\* Vite calls configureServer at startup and whenever it restarts on its own.
ConfigureServer ==
  /\ configureServer(freshServer(currentServer))
  /\ Quiet
  /\ UNCHANGED <<disk, dirExists, overridesByName, knownOverrideFiles, debounceTimer,
                 timerQueue, awaiting>>
  /\ UNCHANGED <<mergeVars, resolverVars, scanVars>>

(***************************************************************************)
(* The fs.watch callback.                                                  *)
(***************************************************************************)
\* A filter without `if (!dashboardComponents.has(name)) return`.
passesFilterAnyName(filename) ==
  /\ Extname(filename) \in COMPONENT_EXT_SET
  /\ overrideName(filename) # EMPTY
  /\ overrideName(filename) # STR_index

\* lines 474-482: the events the callback does not return early on
passesFilter(filename) ==
  /\ Extname(filename) \in COMPONENT_EXT_SET
  /\ overrideName(filename) # EMPTY
  /\ overrideName(filename) # STR_index
  /\ overrideName(filename) \in dashboardComponents

\* What the callback computes from the filename alone, computed once per file.
eventFacts ==
  [filename \in OverrideFileNames |->
     [passes |-> passesFilter(filename),
      name |-> overrideName(filename),
      fullPath |-> Resolve(componentsDir, filename)]]

\* A callback without the MODIFICATION branch.
isModificationNever(fileExists, wasKnown) == FALSE

\* if (fileExists && wasKnown)
isModification(fileExists, wasKnown) == fileExists /\ wasKnown

\* The queue of a callback that does not call clearTimeout.
unclearedQueue == timerQueue

\* if (debounceTimer) clearTimeout(debounceTimer): the queue without the
\* handle's timer (clearing a timer that has fired clears nothing)
clearedQueue ==
  IF debounceTimer = "pending" THEN SubSeq(timerQueue, 1, Len(timerQueue) - 1) ELSE timerQueue

\* The messages of the MODIFICATION branch (lines 492-511).
modificationInvalidates(server, mods) == IF server # 0 /\ mods # {} THEN mods ELSE {}

modificationSends(server, mods) ==
  IF server # 0 /\ mods # {} THEN UpdateMsg(server, mods)
  ELSE IF server # 0 THEN ForceReload(server)
  ELSE NoMsg

\* The callback for `filename`, run after the file system changed from disk to
\* disk'; mods is moduleGraph.getModulesByFile(fullPath). The closure of the
\* timer callback holds the callback's locals; `change` records what happened
\* to the file.
watchCallback(filename, mods) ==
  LET fullPath == eventFacts[filename].fullPath
      fileExists == filename \in disk'
      wasKnown == fullPath \in knownOverrideFiles
      change == IF filename \in disk' \ disk THEN "create"
                ELSE IF filename \in disk \ disk' THEN "delete" ELSE "modify"
  IN IF ~eventFacts[filename].passes
     THEN /\ wsOut' = NoMsg /\ invalidated' = {} /\ cancelled' = FALSE
          /\ UNCHANGED <<debounceTimer, timerQueue>>
     ELSE IF isModification(fileExists, wasKnown)
     THEN /\ invalidated' = modificationInvalidates(currentServer, mods)
          /\ wsOut' = modificationSends(currentServer, mods)
          /\ cancelled' = FALSE
          /\ UNCHANGED <<debounceTimer, timerQueue>>
     ELSE /\ timerQueue' = Append(clearedQueue,
                                  Closure(eventFacts[filename].name, fileExists, fullPath, change))
          /\ debounceTimer' = "pending"
          /\ cancelled' = (debounceTimer = "pending")
          /\ wsOut' = NoMsg /\ invalidated' = {}

\* A change of the file system under componentsDir, reported by fs.watch when
\* the watcher exists.
FsChange(filename, newDisk) ==
  /\ disk' = newDisk
  /\ dirExists' = TRUE
  /\ warnings' = {}
  /\ lastLoad' = NoLoad
  /\ rebuilt' = NoRebuild
  /\ errorLogged' = FALSE
  /\ UNCHANGED <<overridesByName, knownOverrideFiles, currentServer, watcherCreated, watchers,
                 awaiting>>
  /\ UNCHANGED <<mergeVars, resolverVars, scanVars>>
  /\ IF watcherCreated
     THEN /\ fsEvent' = filename
          /\ \E mods \in ModuleSets(eventFacts[filename].fullPath) :
               watchCallback(filename, mods)
     ELSE /\ fsEvent' = NULL /\ wsOut' = NoMsg /\ invalidated' = {} /\ cancelled' = FALSE
          /\ UNCHANGED <<debounceTimer, timerQueue>>

FsCreate ==
  \E f \in OverrideFileNames \ disk :
    /\ Cardinality(disk) < MaxFiles
    /\ FsChange(f, disk \cup {f})

FsDelete == \E f \in disk : FsChange(f, disk \ {f})

FsModify == \E f \in disk : FsChange(f, disk)

(***************************************************************************)
(* The debounce timer's callback, up to `await currentServer.restart()`.   *)
(***************************************************************************)
\* The callbacks suspended at the await once this callback has run its
\* synchronous part: with a server it calls restart() and awaits it.
\* A re-scan whose turn ends after overridesByName.clear().
rebuildClearOnly(old, tree, listing) == << >>

\* A re-scan that omits overridesByName.clear().
rebuildWithoutClear(old, tree, listing) == fillOverrides(old, sortedOverrideFiles(listing))

\* lines 520-528: overridesByName.clear(), then the scan loop over the files
\* of `tree` as listed in `listing`; `old` is the map before the re-scan.
rebuildOverrides(old, tree, listing) == scanResults[tree][listing].overrides

awaitingAfterFire == IF currentServer = 0 THEN awaiting ELSE awaiting + 1

TimerFire ==
  /\ timerQueue # << >>
  /\ currentServer # 0 => awaiting < MaxInflight
  /\ \E listing \in DOMAIN scanResults[disk] :
       /\ overridesByName' = rebuildOverrides(overridesByName, disk, listing)
       /\ knownOverrideFiles' = scanResults[disk][listing].known
       /\ warnings' = scanResults[disk][listing].warnings
  /\ timerQueue' = Tail(timerQueue)
  /\ debounceTimer' = IF Len(timerQueue) = 1 /\ debounceTimer = "pending" THEN "fired"
                      ELSE debounceTimer
  /\ awaiting' = awaitingAfterFire
  /\ rebuilt' = Head(timerQueue)
  /\ cancelled' = FALSE
  /\ errorLogged' = FALSE
  /\ fsEvent' = NULL /\ wsOut' = NoMsg /\ invalidated' = {} /\ lastLoad' = NoLoad
  /\ UNCHANGED <<disk, dirExists, currentServer, watcherCreated, watchers>>
  /\ UNCHANGED <<mergeVars, resolverVars, scanVars>>

\* server.restart() resolves: Vite has built the next server and called
\* configureServer on it; the callback resumes and sends the force-reload on
\* currentServer.
RestartResolves ==
  /\ awaiting > 0
  /\ configureServer(freshServer(currentServer))
  /\ awaiting' = awaiting - 1
  /\ wsOut' = ForceReload(currentServer')
  /\ fsEvent' = NULL /\ invalidated' = {} /\ warnings' = {} /\ lastLoad' = NoLoad
  /\ rebuilt' = NoRebuild /\ cancelled' = FALSE /\ errorLogged' = FALSE
  /\ UNCHANGED <<disk, dirExists, overridesByName, knownOverrideFiles, debounceTimer, timerQueue>>
  /\ UNCHANGED <<mergeVars, resolverVars, scanVars>>

\* A catch block that sends the force-reload all the same.
RestartRejectsAndReloads ==
  /\ awaiting > 0
  /\ awaiting' = awaiting - 1
  /\ wsOut' = ForceReload(currentServer)
  /\ fsEvent' = NULL /\ invalidated' = {} /\ warnings' = {} /\ lastLoad' = NoLoad
  /\ rebuilt' = NoRebuild /\ cancelled' = FALSE /\ errorLogged' = TRUE
  /\ UNCHANGED <<disk, dirExists, overridesByName, knownOverrideFiles, currentServer,
                 watcherCreated, watchers, debounceTimer, timerQueue>>
  /\ UNCHANGED <<mergeVars, resolverVars, scanVars>>

\* A catch block that arms a timer to try again.
RestartRejectsAndRetries ==
  /\ awaiting > 0
  /\ awaiting' = awaiting - 1
  /\ errorLogged' = TRUE
  /\ timerQueue' = Append(timerQueue, Closure(NULL, FALSE, NULL, "retry"))
  /\ debounceTimer' = "pending"
  /\ rebuilt' = NoRebuild /\ cancelled' = FALSE
  /\ fsEvent' = NULL /\ wsOut' = NoMsg /\ invalidated' = {} /\ warnings' = {}
  /\ lastLoad' = NoLoad
  /\ UNCHANGED <<disk, dirExists, overridesByName, knownOverrideFiles, currentServer,
                 watcherCreated, watchers>>
  /\ UNCHANGED <<mergeVars, resolverVars, scanVars>>

\* server.restart() rejects: the catch block logs the error.
RestartRejects ==
  /\ awaiting > 0
  /\ awaiting' = awaiting - 1
  /\ errorLogged' = TRUE
  /\ rebuilt' = NoRebuild /\ cancelled' = FALSE
  /\ fsEvent' = NULL /\ wsOut' = NoMsg /\ invalidated' = {} /\ warnings' = {}
  /\ lastLoad' = NoLoad
  /\ UNCHANGED <<disk, dirExists, overridesByName, knownOverrideFiles, currentServer,
                 watcherCreated, watchers, debounceTimer, timerQueue>>
  /\ UNCHANGED <<mergeVars, resolverVars, scanVars>>

(***************************************************************************)
(* handleHotUpdate({ file }).                                              *)
(***************************************************************************)
\* What the hook returns to Vite: `[]` (no module is hot-updated by Vite) for a
\* file of knownOverrideFiles (`known`), else undefined (Vite's default
\* update runs).
handleHotUpdate(known, file) == IF file \in known THEN << >> ELSE UNDEFINED

(***************************************************************************)
(* esbuild asks the onLoad hook for a module.                              *)
(***************************************************************************)
\* The hooks answer from overridesByName (their `overrides` is the same Map)
\* and change nothing; esbuild asks the entry hook first and the component
\* hook when the entry hook declines.
LoadRequest ==
  /\ \E path \in LoadRequests \cup EntryRequests :
     \E readable \in (IF requestFacts[path].entryFilter THEN BOOLEAN ELSE {TRUE}) :
       LET entry == onLoadEntry(overridesByName, path, readable)
       IN lastLoad' = [path |-> path,
                       entry |-> entry,
                       result |-> IF entry # NULL THEN NULL
                                  ELSE onLoadComponent(overridesByName, path)]
  /\ fsEvent' = NULL /\ wsOut' = NoMsg /\ invalidated' = {} /\ warnings' = {}
  /\ rebuilt' = NoRebuild /\ cancelled' = FALSE /\ errorLogged' = FALSE
  /\ UNCHANGED <<disk, dirExists, overridesByName, knownOverrideFiles, currentServer,
                 watcherCreated, watchers, debounceTimer, timerQueue, awaiting>>
  /\ UNCHANGED <<mergeVars, resolverVars, scanVars>>

Next ==
  \/ ConfigureServer
  \/ FsCreate
  \/ FsDelete
  \/ FsModify
  \/ TimerFire
  \/ RestartResolves
  \/ RestartRejects
  \/ LoadRequest

(***************************************************************************)
(* mergeExtensionRoutes.                                                   *)
(*                                                                         *)
(* A RouteObject is a record of the properties the function reads or       *)
(* writes; UNDEF is an absent handler, NULL an absent path, and            *)
(* hasChildren tells whether the `children` property is set.               *)
(***************************************************************************)
MaxRoutes == 2       \* routes in the static list and in the extension list

UNDEF == "undefined"

Route(path, component, lazy, loader, hasChildren, children) ==
  [path |-> path, Component |-> component, lazy |-> lazy, loader |-> loader,
   hasChildren |-> hasChildren, children |-> children]

Leaf(path, component, lazy, loader) == Route(path, component, lazy, loader, FALSE, << >>)

P_o == <<111>>                                    \* "o"   (orders)
P_slash_o == <<47, 47, 111>>                      \* "//o"
P_o_i == <<111, 47, 105>>                         \* "o/i" (orders/:id)
P_p == <<112>>                                    \* "p"
P_k == <<107>>                                    \* "k"
P_slash_k == <<47, 107>>                          \* "/k"
P_m == <<109>>                                    \* "m"
P_g == <<103>>                                    \* "g"
P_h == <<104>>                                    \* "h"
P_n == <<110>>                                    \* "n"
P_q == <<113>>                                    \* "q"

\* The static routes of the model.
B_o == Route(P_o, "A1", UNDEF, "ldA1", TRUE, <<Leaf(P_o_i, "A2", UNDEF, UNDEF)>>)
B_slash_o == Leaf(P_slash_o, UNDEF, "LA3", UNDEF)
B_p ==
  Route(P_p, "A4", UNDEF, "ldA4", TRUE,
        <<Route(P_k, "A5", UNDEF, "ldA5", TRUE, <<Leaf(P_g, "A6", UNDEF, UNDEF)>>),
          Leaf(P_m, UNDEF, "LA7", UNDEF)>>)
B_index == Leaf(NULL, "A8", UNDEF, "ldA8")

StaticRouteSet == {B_o, B_slash_o, B_p, B_index}

\* The extension routes of the model.
E_o_eager == Leaf(P_o, "X1", UNDEF, UNDEF)
E_o_lazy == Route(P_slash_o, UNDEF, "LX2", UNDEF, TRUE, <<Leaf(P_n, UNDEF, "LX3", UNDEF)>>)
E_p ==
  Route(P_p, UNDEF, "LX4", UNDEF, TRUE,
        <<Route(P_slash_k, UNDEF, "LX5", UNDEF, TRUE, <<Leaf(P_h, UNDEF, "LX6", UNDEF)>>)>>)
E_q == Leaf(P_q, UNDEF, "LX7", UNDEF)
E_index == Route(NULL, UNDEF, "LX8", UNDEF, TRUE, << >>)

ExtensionRouteSet == {E_o_eager, E_o_lazy, E_p, E_q, E_index}

\* The lists of at most n elements of S.
ListsUpTo(S, n) == UNION {[1..k -> S] : k \in 0..n}

\* (r.path ?? "").replace(/^\/+/, "")
RECURSIVE StripLeadingSlashes(_)
StripLeadingSlashes(str) ==
  IF str # EMPTY /\ Head(str) = SLASH[1] THEN StripLeadingSlashes(Tail(str)) ELSE str

normalizedPath(route) == StripLeadingSlashes(IF route.path = NULL THEN EMPTY ELSE route.path)

\* result.findIndex((r) => normalized(r) === extPath), 0 for -1
findIndex(routes, extPath) ==
  LET hits == {i \in 1..Len(routes) : normalizedPath(routes[i]) = extPath}
  IN IF hits = {} THEN 0 ELSE CHOOSE i \in hits : \A j \in hits : i <= j

RECURSIVE mergeExtensionRoutes(_, _)

\* A merge that sets lazy and leaves Component and loader in place.
mergeHandlersKeepEager(existing, ext) ==
  IF ext.lazy # UNDEF THEN [existing EXCEPT !.lazy = ext.lazy] ELSE existing

\* lines 28-35: const merged = { ...existing }; if (ext.lazy) { ... }
mergeHandlers(existing, ext) ==
  IF ext.lazy # UNDEF
  THEN [existing EXCEPT !.lazy = ext.lazy, !.Component = UNDEF, !.loader = UNDEF]
  ELSE existing

\* A merge whose extension children replace the static children.
mergeChildrenShallow(merged, existing, ext) ==
  IF ext.hasChildren
  THEN [merged EXCEPT !.hasChildren = TRUE, !.children = ext.children]
  ELSE merged

\* lines 40-45: the children of the merged route
mergeChildren(merged, existing, ext) ==
  IF ext.hasChildren \/ existing.hasChildren
  THEN [merged EXCEPT !.hasChildren = TRUE,
                      !.children = mergeExtensionRoutes(existing.children, ext.children)]
  ELSE merged

\* lines 27-45: the merged route of a matched pair
mergeRoute(existing, ext) == mergeChildren(mergeHandlers(existing, ext), existing, ext)

\* An iteration that puts an unmatched extension route in front.
mergeIterationPrepends(acc, ext) ==
  LET idx == findIndex(acc, normalizedPath(ext))
  IN IF idx = 0 THEN <<ext>> \o acc
     ELSE [acc EXCEPT ![idx] = mergeRoute(acc[idx], ext)]

\* lines 17-47: one iteration of `for (const ext of extensionRoutes)`
mergeIteration(acc, ext) ==
  LET idx == findIndex(acc, normalizedPath(ext))
  IN IF idx = 0 THEN Append(acc, ext)
     ELSE [acc EXCEPT ![idx] = mergeRoute(acc[idx], ext)]

RECURSIVE mergeLoop(_, _)
mergeLoop(acc, exts) ==
  IF exts = << >> THEN acc ELSE mergeLoop(mergeIteration(acc, Head(exts)), Tail(exts))

\* lines 8-51; `routes` is the parameter staticRoutes, `exts` extensionRoutes
mergeExtensionRoutes(routes, exts) ==
  IF Len(exts) = 0 THEN routes ELSE mergeLoop(routes, exts)

(***************************************************************************)
(* mergeExtensionRoutes on objects in memory.                              *)
(*                                                                         *)
(* The heap is a sequence of cells and an address is a position in it; a   *)
(* cell is an array of addresses or a route object whose `children` is the *)
(* address of an array, 0 when the property is absent.                     *)
(***************************************************************************)
ArrayCell(items) ==
  [kind |-> "array", items |-> items, path |-> NULL, Component |-> UNDEF, lazy |-> UNDEF,
   loader |-> UNDEF, children |-> 0]

RouteCell(route, children) ==
  [kind |-> "route", items |-> << >>, path |-> route.path, Component |-> route.Component,
   lazy |-> route.lazy, loader |-> route.loader, children |-> children]

\* A new cell: the heap with it and its address.
Alloc(h, cell) == [heap |-> Append(h, cell), addr |-> Len(h) + 1]

\* The objects of a list of routes (and of their children), newly allocated.
RECURSIVE AllocList(_, _)
RECURSIVE AllocItems(_, _, _)

AllocRoute(h, route) ==
  IF route.hasChildren
  THEN LET c == AllocList(h, route.children)
       IN Alloc(c.heap, RouteCell(route, c.addr))
  ELSE Alloc(h, RouteCell(route, 0))

AllocItems(h, routes, items) ==
  IF routes = << >> THEN [heap |-> h, items |-> items]
  ELSE LET r == AllocRoute(h, Head(routes))
       IN AllocItems(r.heap, Tail(routes), Append(items, r.addr))

AllocList(h, routes) ==
  LET a == AllocItems(h, routes, << >>)
  IN Alloc(a.heap, ArrayCell(a.items))

\* The routes an array in memory holds.
RECURSIVE DerefList(_, _)
DerefRoute(h, a) ==
  Route(h[a].path, h[a].Component, h[a].lazy, h[a].loader, h[a].children # 0,
        IF h[a].children = 0 THEN << >> ELSE DerefList(h, h[a].children))

DerefList(h, a) == [i \in 1..Len(h[a].items) |-> DerefRoute(h, h[a].items[i])]

\* result.findIndex(...) on the array at address r, 0 for -1
findIndexAt(h, r, extPath) ==
  LET hits == {i \in 1..Len(h[r].items) : normalizedPath(h[h[r].items[i]]) = extPath}
  IN IF hits = {} THEN 0 ELSE CHOOSE i \in hits : \A j \in hits : i <= j

\* A merge that writes into the matched object itself.
mergedIsExisting(h, existing) == [heap |-> h, addr |-> existing]

\* const merged = { ...existing }: a new object with the properties of existing
mergedObject(h, existing) == Alloc(h, h[existing])

\* `x.children || []`: the array of the property, or a new empty array
childrenOrEmpty(h, a) ==
  IF h[a].children # 0 THEN [heap |-> h, addr |-> h[a].children]
  ELSE Alloc(h, ArrayCell(<< >>))

RECURSIVE mergeAt(_, _, _)

\* lines 17-47 on the array at address r, for the extension object at address e
mergeIterationAt(h, r, e) ==
  LET idx == findIndexAt(h, r, normalizedPath(h[e]))
  IN IF idx = 0 THEN [h EXCEPT ![r].items = Append(@, e)]
     ELSE LET existing == h[r].items[idx]
              m == mergedObject(h, existing)
              h1 == IF h[e].lazy # UNDEF
                    THEN [m.heap EXCEPT ![m.addr].lazy = h[e].lazy,
                                        ![m.addr].Component = UNDEF,
                                        ![m.addr].loader = UNDEF]
                    ELSE m.heap
              h2 == IF h1[e].children # 0 \/ h1[existing].children # 0
                    THEN LET sc == childrenOrEmpty(h1, existing)
                             ec == childrenOrEmpty(sc.heap, e)
                             c == mergeAt(ec.heap, sc.addr, ec.addr)
                         IN [c.heap EXCEPT ![m.addr].children = c.addr]
                    ELSE h1
          IN [h2 EXCEPT ![r].items[idx] = m.addr]

RECURSIVE mergeLoopAt(_, _, _)
mergeLoopAt(h, r, exts) ==
  IF exts = << >> THEN h ELSE mergeLoopAt(mergeIterationAt(h, r, Head(exts)), r, Tail(exts))

\* line 14: const result = [...staticRoutes]
copyOfArray(h, a) == Alloc(h, ArrayCell(h[a].items))

\* lines 8-51 on the arrays at addresses s and e: the heap after the call and
\* the address of the returned array
mergeAt(h, s, e) ==
  IF Len(h[e].items) = 0 THEN [heap |-> h, addr |-> s]
  ELSE LET r == copyOfArray(h, s)
       IN [heap |-> mergeLoopAt(r.heap, r.addr, h[e].items), addr |-> r.addr]

\* The memory at the call: the objects of the two arguments.
InputHeap ==
  LET a == AllocList(<< >>, staticRoutes)
      b == AllocList(a.heap, extensionRoutes)
  IN [heap |-> b.heap, staticRef |-> a.addr, extRef |-> b.addr]

(***************************************************************************)
(* One top-level call of mergeExtensionRoutes, iteration by iteration.     *)
(***************************************************************************)
MergeIdle ==
  /\ staticRoutes = << >>
  /\ extensionRoutes = << >>
  /\ result = << >>
  /\ extIndex = 0
  /\ mergePc = "idle"
  /\ heap = << >>
  /\ staticRef = 0
  /\ extRef = 0
  /\ resultRef = 0

MergeInit ==
  /\ staticRoutes \in ListsUpTo(StaticRouteSet, MaxRoutes)
  /\ extensionRoutes \in ListsUpTo(ExtensionRouteSet, MaxRoutes)
  /\ result = << >>
  /\ extIndex = 0
  /\ mergePc = "called"
  /\ heap = InputHeap.heap
  /\ staticRef = InputHeap.staticRef
  /\ extRef = InputHeap.extRef
  /\ resultRef = 0


\* An entry that answers an empty extension list with an empty list.
MergeEnterDropsBase ==
  /\ mergePc = "called"
  /\ result' = IF Len(extensionRoutes) = 0 THEN << >> ELSE staticRoutes
  /\ IF Len(extensionRoutes) = 0
     THEN /\ mergePc' = "returned" /\ extIndex' = extIndex
          /\ heap' = heap /\ resultRef' = staticRef
     ELSE /\ mergePc' = "loop" /\ extIndex' = 1
          /\ heap' = copyOfArray(heap, staticRef).heap
          /\ resultRef' = copyOfArray(heap, staticRef).addr
  /\ UNCHANGED <<staticRoutes, extensionRoutes, staticRef, extRef>>
  /\ UNCHANGED <<sessionVars, resolverVars, scanVars>>

\* line 12 and line 14
MergeEnter ==
  /\ mergePc = "called"
  /\ result' = staticRoutes
  /\ IF Len(extensionRoutes) = 0
     THEN /\ mergePc' = "returned" /\ extIndex' = extIndex
          /\ heap' = heap /\ resultRef' = staticRef
     ELSE /\ mergePc' = "loop" /\ extIndex' = 1
          /\ heap' = copyOfArray(heap, staticRef).heap
          /\ resultRef' = copyOfArray(heap, staticRef).addr
  /\ UNCHANGED <<staticRoutes, extensionRoutes, staticRef, extRef>>
  /\ UNCHANGED <<sessionVars, resolverVars, scanVars>>

\* lines 16-48
MergeIterate ==
  /\ mergePc = "loop"
  /\ extIndex <= Len(extensionRoutes)
  /\ result' = mergeIteration(result, extensionRoutes[extIndex])
  /\ heap' = mergeIterationAt(heap, resultRef, heap[extRef].items[extIndex])
  /\ extIndex' = extIndex + 1
  /\ UNCHANGED <<staticRoutes, extensionRoutes, mergePc, staticRef, extRef, resultRef>>
  /\ UNCHANGED <<sessionVars, resolverVars, scanVars>>

\* line 50
MergeReturn ==
  /\ mergePc = "loop"
  /\ extIndex > Len(extensionRoutes)
  /\ mergePc' = "returned"
  /\ UNCHANGED <<staticRoutes, extensionRoutes, result, extIndex, heap, staticRef, extRef,
                 resultRef>>
  /\ UNCHANGED <<sessionVars, resolverVars, scanVars>>

MergeNext ==
  \/ MergeEnter
  \/ MergeIterate
  \/ MergeReturn

(***************************************************************************)
(* One call of getComponentName.                                           *)
(***************************************************************************)
MaxSegments == 3     \* segments of the path handed to getComponentName

STR_widget == <<119, 105, 100, 103, 101, 116>>    \* "widget"
STR_thing == <<116, 104, 105, 110, 103>>          \* "thing"

\* The path segments of the model: directory names, files with and without a
\* recognized extension, a bare extension.
ResolverSegments ==
  {D_a, D_b, STR_index, STR_widget,
   STR_index \o DOT \o STR_tsx, STR_widget \o DOT \o STR_tsx, STR_thing \o DOT \o STR_tsx,
   STR_index \o DOT \o STR_mjs, DOT \o STR_tsx, N_x \o DOT \o STR_css}

\* The segments joined by the separator sep.
RECURSIVE Join(_, _)
Join(segs, sep) ==
  IF segs = << >> THEN EMPTY
  ELSE IF Len(segs) = 1 THEN segs[1]
  ELSE segs[1] \o sep \o Join(Tail(segs), sep)

\* The paths of the model: relative and absolute, with either separator.
ResolverPaths ==
  {prefix \o Join(segs, sep) :
     prefix \in {EMPTY, SLASH}, sep \in {SLASH, BACKSLASH},
     segs \in ListsUpTo(ResolverSegments, MaxSegments)}

ResolverIdle ==
  /\ resolverPath = NULL
  /\ resolvedName = NULL
  /\ resolverPc = "idle"

ResolverInit ==
  /\ resolverPath \in ResolverPaths
  /\ resolvedName = NULL
  /\ resolverPc = "called"

\* lines 270-287
GetComponentName ==
  /\ resolverPc = "called"
  /\ resolvedName' = getComponentName(resolverPath)
  /\ resolverPc' = "returned"
  /\ UNCHANGED resolverPath
  /\ UNCHANGED <<sessionVars, mergeVars, scanVars>>

ResolverNext ==
  \/ GetComponentName

(***************************************************************************)
(* One call of collectComponentFiles(root) on a directory structure.       *)
(*                                                                         *)
(* A structure maps each directory to what readdirSync gives for it: it    *)
(* throws (the directory is missing or unreadable), or it returns entries  *)
(* with a name and a kind ("file", "dir", or "symlink" for a Dirent that   *)
(* is neither isFile() nor isDirectory()); a "dir" entry leads to the      *)
(* directory `target`, which may be one of its ancestors.                  *)
(***************************************************************************)
MaxDirs == 3         \* directories of a structure

STR_f_tsx == <<102>> \o DOT \o STR_tsx            \* "f.tsx"
STR_f_ts == <<102>> \o DOT \o STR_ts              \* "f.ts"
STR_g_css == <<103>> \o DOT \o STR_css            \* "g.css"
STR_hidden_ts == DOT \o <<104>> \o DOT \o STR_ts  \* ".h.ts"
STR_s_tsx == <<115>> \o DOT \o STR_tsx            \* "s.tsx"
STR_d == <<100>>                                  \* "d"
STR_e == <<101>>                                  \* "e"
STR_hidden_e == DOT \o <<101>>                    \* ".e"

scanRoot == <<47, 114>>                           \* "/r"

Dirent(name, kind, target) == [name |-> name, kind |-> kind, target |-> target]

Unreadable == [readable |-> FALSE, entries |-> << >>]
Listing(entries) == [readable |-> TRUE, entries |-> entries]

\* What a directory of the model may hold: nothing readable, no entry, files
\* only, files and sub-directories of which one is scanned, or two scanned
\* sub-directories.
DirContents ==
  {Unreadable, Listing(<< >>),
   Listing(<<Dirent(STR_f_tsx, "file", 0), Dirent(STR_g_css, "file", 0),
             Dirent(STR_hidden_ts, "file", 0), Dirent(STR_s_tsx, "symlink", 0)>>)}
  \cup {Listing(<<Dirent(STR_f_ts, "file", 0), Dirent(STR_d, "dir", t),
                  Dirent(STR_hidden_e, "dir", t), Dirent(STR_node_modules, "dir", t)>>) :
          t \in 1..MaxDirs}
  \cup {Listing(<<Dirent(STR_d, "dir", t[1]), Dirent(STR_e, "dir", t[2])>>) :
          t \in {u \in (1..MaxDirs) \X (1..MaxDirs) : u[1] < u[2]}}

\* A guard that lets one more level through.
depthExceededLate(depth) == depth > MaxScanDepth + 1

\* if (depth > 20) return []
depthExceeded(depth) == depth > MaxScanDepth


RECURSIVE collectComponentFilesAt(_, _, _, _)
RECURSIVE collectEntries(_, _, _, _)

\* lines 252-263: the loop over the entries of `dir`
collectEntries(fsys, entries, dir, depth) ==
  IF entries = << >> THEN << >>
  ELSE LET entry == Head(entries)
           fullPath == Resolve(dir, entry.name)
       IN (IF SkippedEntry(entry.name) THEN << >>
           ELSE IF entry.kind = "dir"
                THEN collectComponentFilesAt(fsys, entry.target, fullPath, depth + 1)
           ELSE IF entry.kind = "file" /\ Extname(entry.name) \in COMPONENT_EXT_SET
                THEN <<fullPath>>
           ELSE << >>)
          \o collectEntries(fsys, Tail(entries), dir, depth)

\* lines 243-265: collectComponentFiles(dir, depth), `d` being the directory
\* of the structure that the path `dir` names
collectComponentFilesAt(fsys, d, dir, depth) ==
  IF depthExceeded(depth) THEN << >>
  ELSE IF ~fsys[d].readable THEN << >>
  ELSE collectEntries(fsys, fsys[d].entries, dir, depth)

\* The directories the scan enters from directory d.
ScannedSubDirs(fsys, d) ==
  IF ~fsys[d].readable THEN {}
  ELSE {fsys[d].entries[i].target :
          i \in {j \in 1..Len(fsys[d].entries) :
                   /\ fsys[d].entries[j].kind = "dir"
                   /\ ~SkippedEntry(fsys[d].entries[j].name)}}

\* The directories the scan reaches from those of S in at most k levels.
RECURSIVE ReachableDirs(_, _, _)
ReachableDirs(fsys, S, k) ==
  IF k = 0 THEN S
  ELSE ReachableDirs(fsys, S \cup UNION {ScannedSubDirs(fsys, d) : d \in S}, k - 1)

\* No directory with two scanned sub-directories lies on a cycle (the scan
\* of such a structure has 2^20 calls).
TractableStructure(fsys) ==
  \A d \in DOMAIN fsys :
    Cardinality(ScannedSubDirs(fsys, d)) >= 2 =>
      d \notin ReachableDirs(fsys, ScannedSubDirs(fsys, d), Cardinality(DOMAIN fsys))

ScanIdle ==
  /\ scanFs = << >>
  /\ scanned = << >>
  /\ scanPc = "idle"

ScanInit ==
  /\ scanFs \in {fsys \in [1..MaxDirs -> DirContents] : TractableStructure(fsys)}
  /\ scanned = << >>
  /\ scanPc = "called"

\* collectComponentFiles(root), the root being directory 1 of the structure
CollectComponentFiles ==
  /\ scanPc = "called"
  /\ scanned' = collectComponentFilesAt(scanFs, 1, scanRoot, 0)
  /\ scanPc' = "returned"
  /\ UNCHANGED scanFs
  /\ UNCHANGED <<sessionVars, mergeVars, resolverVars>>

ScanNext ==
  \/ CollectComponentFiles

(***************************************************************************)
(* The specifications: a dev session of the plugin, and a call of          *)
(* mergeExtensionRoutes.                                                   *)
(***************************************************************************)
vars == <<sessionVars, mergeVars, resolverVars, scanVars>>

Init == SessionInit /\ MergeIdle /\ ResolverIdle /\ ScanIdle

Spec == Init /\ [][Next]_vars

\* The session before any file exists, as the fixed background of a call of a
\* pure function.
SessionIdle ==
  /\ disk = {}
  /\ dirExists = FALSE
  /\ overridesByName = << >>
  /\ knownOverrideFiles = {}
  /\ currentServer = 0
  /\ watcherCreated = FALSE
  /\ watchers = 0
  /\ debounceTimer = "null"
  /\ timerQueue = << >>
  /\ awaiting = 0
  /\ fsEvent = NULL
  /\ wsOut = NoMsg
  /\ invalidated = {}
  /\ warnings = {}
  /\ lastLoad = NoLoad
  /\ rebuilt = NoRebuild
  /\ cancelled = FALSE
  /\ errorLogged = FALSE

MergeSpecInit == SessionIdle /\ MergeInit /\ ResolverIdle /\ ScanIdle

MergeSpec == MergeSpecInit /\ [][MergeNext]_vars

ResolverSpecInit == SessionIdle /\ MergeIdle /\ ResolverInit /\ ScanIdle

ResolverSpec == ResolverSpecInit /\ [][ResolverNext]_vars

ScanSpecInit == SessionIdle /\ MergeIdle /\ ResolverIdle /\ ScanInit

ScanSpec == ScanSpecInit /\ [][ScanNext]_vars

(***************************************************************************)
(* Properties of a dev session (specification Spec).                       *)
(***************************************************************************)
\* The override files of `tree` the scan loop enters under `name`.
OverrideFilesNamed(tree, name) ==
  {p \in collectComponentFiles(componentsDir, tree) : isOverrideEntry(p) /\ overrideName(p) = name}

\* The greatest string of S in the order of Array.prototype.sort().
GreatestPath(S) == CHOOSE p \in S : \A q \in S : q = p \/ LexLess(q, p)

\* The requests for the upstream files whose logical name is `name`.
UpstreamRequestsNamed(name) ==
  {path \in LoadRequests : inDashboardSrc(path) /\ getComponentName(path) = name}

\* The last step ran a timer callback.
TimerCallbackRan == rebuilt.change \notin {"none", "initial"}

\* The last step ran the timer callback armed by the creation of a file that
\* is on disk.
CreatedFileRebuilt ==
  /\ rebuilt.change = "create"
  /\ rebuilt.fullPath \in collectComponentFiles(componentsDir, disk)

\* C1 as stated: once the timer armed by the creation of a file named after an
\* upstream component has fired, overridesByName maps the name to that file's
\* path and every request for a non-barrel upstream file of that name is
\* answered with that file.
C1_CreatedFileIsServed ==
  CreatedFileRebuilt =>
    /\ rebuilt.name \in DOMAIN overridesByName
    /\ overridesByName[rebuilt.name] = rebuilt.fullPath
    /\ \A path \in UpstreamRequestsNamed(rebuilt.name) :
         ~isBarrelRequest(path) => onLoadComponent(overridesByName, path) = rebuilt.fullPath

\* C1, amended: once that timer has fired, overridesByName maps the name to the
\* greatest path among the override files of that name, requests for non-barrel
\* upstream .ts/.tsx/.js/.jsx files of that name are answered with that path,
\* and requests for upstream files of other extensions are declined.
C1_CreatedNameIsServed ==
  CreatedFileRebuilt =>
    /\ rebuilt.name \in DOMAIN overridesByName
    /\ overridesByName[rebuilt.name] = GreatestPath(OverrideFilesNamed(disk, rebuilt.name))
    /\ \A path \in UpstreamRequestsNamed(rebuilt.name) :
         ~isBarrelRequest(path) =>
           onLoadComponent(overridesByName, path) =
             IF componentFilter(path) THEN overridesByName[rebuilt.name] ELSE NULL

C1_Witness ==
  /\ CreatedFileRebuilt
  /\ rebuilt.fullPath = Resolve(componentsDir, F_a_x_tsx)
  /\ overridesByName[N_x] = rebuilt.fullPath
  /\ onLoadComponent(overridesByName, Resolve(dashboardSrc, U_x_x_tsx)) = rebuilt.fullPath

\* C2: once the timer armed by the deletion of a name's only override file has
\* fired, overridesByName has no entry for the name and every request for an
\* upstream file of that name is declined.
C2_DeletedNameIsDeclined ==
  (rebuilt.change = "delete" /\ OverrideFilesNamed(disk, rebuilt.name) = {}) =>
    /\ rebuilt.name \notin DOMAIN overridesByName
    /\ \A path \in UpstreamRequestsNamed(rebuilt.name) :
         onLoadComponent(overridesByName, path) = NULL

C2_Witness ==
  /\ rebuilt.change = "delete"
  /\ rebuilt.name = N_x
  /\ OverrideFilesNamed(disk, N_x) = {}
  /\ DOMAIN overridesByName = {N_z}

\* C3 as stated: no timer callback starts its rebuild while an earlier callback
\* is still awaiting server.restart().
C3_CallbacksSerialized == [][TimerCallbackRan' => awaiting = 0]_vars

\* The step handled an fs.watch event for a file that exists and is in
\* knownOverrideFiles.
InPlaceEdit ==
  /\ fsEvent' # NULL
  /\ fsEvent' \in disk'
  /\ Resolve(componentsDir, fsEvent') \in knownOverrideFiles

\* The step called no restart, armed or cancelled no timer and left the
\* registry alone.
NoRestartNoTimer ==
  /\ awaiting' = awaiting
  /\ timerQueue' = timerQueue
  /\ debounceTimer' = debounceTimer
  /\ cancelled' = FALSE
  /\ currentServer' = currentServer
  /\ overridesByName' = overridesByName
  /\ knownOverrideFiles' = knownOverrideFiles

\* Every invalidated module is a module of the file of the event.
InvalidatedAreOfFile ==
  \A m \in invalidated' : m[1] = Resolve(componentsDir, fsEvent')

TimerArmed == fsEvent' # NULL /\ (timerQueue' # timerQueue \/ debounceTimer' # debounceTimer)

C6_GreatestPathWins ==
  rebuilt # NoRebuild =>
    /\ DOMAIN overridesByName =
         {overrideName(p) : p \in {q \in collectComponentFiles(componentsDir, disk) :
                                     isOverrideEntry(q)}}
    /\ \A name \in DOMAIN overridesByName :
         overridesByName[name] = GreatestPath(OverrideFilesNamed(disk, name))

C6_Witness ==
  /\ TimerCallbackRan
  /\ {F_a_x_tsx, F_b_x_tsx} \subseteq disk
  /\ overridesByName[N_x] = Resolve(componentsDir, F_b_x_tsx)

\* C7 as stated: a scan that meets two override files of one name logs a
\* diagnostic that names both paths.
C7_CollisionsReported ==
  rebuilt # NoRebuild =>
    \A p, q \in collectComponentFiles(componentsDir, disk) :
      (p # q /\ isOverrideEntry(p) /\ isOverrideEntry(q) /\ overrideName(p) = overrideName(q))
        => \E w \in warnings : {p, q} \subseteq w

\* The full paths of the files on disk.
FilesOnDisk == {Resolve(componentsDir, f) : f \in disk}

\* C11 as stated: a request whose registry entry points at a file that is
\* missing is declined; the hook never answers with a substitution that
\* refers to a missing file.
C11_MissingFileDeclined ==
  lastLoad.result # NULL => lastLoad.result \in FilesOnDisk

\* The request is for a non-barrel file of the upstream source tree whose
\* logical name has an entry in the registry.
NamedInRegistry(path) ==
  /\ inDashboardSrc(path)
  /\ ~isBarrelRequest(path)
  /\ getComponentName(path) \in DOMAIN overridesByName

\* C12 as stated: the hook substitutes a request if and only if the path is in
\* the upstream source tree, its file is no barrel and its logical name has a
\* registry entry.
C12_SubstitutesIffNamed ==
  lastLoad.path # NULL => (lastLoad.result # NULL <=> NamedInRegistry(lastLoad.path))

\* C12, amended: the hook substitutes a request if and only if, moreover, the
\* path ends in .ts, .tsx, .js or .jsx; a substitution names the file of the
\* registry entry, and a barrel is declined even when its directory's name
\* has an entry.
C12_SubstitutesIffFilteredAndNamed ==
  lastLoad.path # NULL =>
    /\ lastLoad.result # NULL <=>
         (componentFilter(lastLoad.path) /\ NamedInRegistry(lastLoad.path))
    /\ lastLoad.result # NULL =>
         lastLoad.result = overridesByName[getComponentName(lastLoad.path)]

C12_Witness ==
  /\ lastLoad.path = Resolve(dashboardSrc, U_x_index_tsx)
  /\ getComponentName(lastLoad.path) \in DOMAIN overridesByName
  /\ lastLoad.result = NULL

\* The non-barrel component files a scan of the tree on disk finds.
ScannedEntries == {p \in collectComponentFiles(componentsDir, disk) : isOverrideEntry(p)}

\* Some request can be answered with an override file named like p.
Servable(p) ==
  \E path \in LoadRequests :
    /\ componentFilter(path) /\ inDashboardSrc(path) /\ ~isBarrelRequest(path)
    /\ getComponentName(path) = overrideName(p)

IrrelevantFiles ==
  {f \in OverrideFileNames :
     \/ Extname(f) \notin COMPONENT_EXT_SET
     \/ StripExt(Basename(f)) = STR_index
     \/ StripExt(Basename(f)) \notin dashboardComponents}

\* The step handled an fs.watch event for such a file.
IrrelevantEvent == fsEvent' \in IrrelevantFiles

\* C14: an event for a file with an unrecognized extension, a barrel name or a
\* name that is no upstream component leaves the registry, the known set and
\* the pending timer unchanged and sends, invalidates and restarts nothing.
C14_IrrelevantEventsIgnored ==
  [][IrrelevantEvent =>
       /\ UNCHANGED <<overridesByName, knownOverrideFiles, debounceTimer, timerQueue,
                      awaiting, currentServer, watcherCreated>>
       /\ cancelled' = FALSE
       /\ wsOut' = NoMsg
       /\ invalidated' = {}
       /\ rebuilt' = NoRebuild]_vars

C14_Witness ==
  /\ fsEvent \in {F_z_tsx, F_x_css, F_x_index_tsx}
  /\ debounceTimer = "pending"
  /\ Len(timerQueue) = 1
  /\ currentServer # 0
  /\ wsOut = NoMsg

\* C15: a timer callback sends nothing before its restart() has settled and
\* calls restart() only when a server is attached; the force-reload of a
\* reconciliation is sent in the step in which a restart() resolves, once, on
\* the current server, and a restart() that rejects sends nothing.
C15_ReloadFollowsRestart ==
  [][/\ TimerCallbackRan' =>
          /\ wsOut' = NoMsg
          /\ awaiting' = IF currentServer = 0 THEN awaiting ELSE awaiting + 1
     /\ (fsEvent' = NULL /\ wsOut' # NoMsg) =>
          /\ awaiting > 0 /\ awaiting' = awaiting - 1
          /\ currentServer' # 0 /\ currentServer' # currentServer
          /\ wsOut' = ForceReload(currentServer')
     /\ awaiting' < awaiting =>
          /\ awaiting' = awaiting - 1
          /\ wsOut' = IF currentServer' # currentServer THEN ForceReload(currentServer')
                      ELSE NoMsg]_vars

C15_Witness ==
  /\ fsEvent = NULL
  /\ currentServer # 0
  /\ wsOut = ForceReload(currentServer)
  /\ awaiting = 0
  /\ timerQueue = << >>

(***************************************************************************)
(* Properties of mergeExtensionRoutes (specification MergeSpec).           *)
(***************************************************************************)
\* No two routes of the list have the same normalized path.
UniquePaths(routes) ==
  \A i, j \in 1..Len(routes) :
    i # j => normalizedPath(routes[i]) # normalizedPath(routes[j])

\* C8 as stated: when an extension route's normalized path equals a static
\* route's, the returned list has a single route of that path and it carries
\* the extension route's component, not the static route's.
C8_ExtensionHandlerReplaces ==
  (mergePc = "returned" /\ UniquePaths(staticRoutes) /\ UniquePaths(extensionRoutes)) =>
    \A i \in 1..Len(staticRoutes), j \in 1..Len(extensionRoutes) :
      normalizedPath(staticRoutes[i]) = normalizedPath(extensionRoutes[j]) =>
        LET hits == {k \in 1..Len(result) :
                       normalizedPath(result[k]) = normalizedPath(extensionRoutes[j])}
        IN /\ Cardinality(hits) = 1
           /\ \A k \in hits :
                /\ result[k].Component = extensionRoutes[j].Component
                /\ result[k].lazy = extensionRoutes[j].lazy

\* The children of the routes of exts whose normalized path is p, in order.
RECURSIVE ChildrenAt(_, _)
ChildrenAt(exts, p) ==
  IF exts = << >> THEN << >>
  ELSE (IF normalizedPath(Head(exts)) = p THEN Head(exts).children ELSE << >>)
       \o ChildrenAt(Tail(exts), p)

\* Every route of `routes` keeps its position in res; one that no route of
\* exts matches is unchanged, and so, below a matched one, are the
\* descendants the extension routes of its path do not match.
RECURSIVE PreservedIn(_, _, _)
PreservedIn(routes, exts, res) ==
  \A i \in 1..Len(routes) :
    /\ i <= Len(res)
    /\ IF \A j \in 1..Len(exts) : normalizedPath(exts[j]) # normalizedPath(routes[i])
       THEN res[i] = routes[i]
       ELSE /\ res[i].path = routes[i].path
            /\ PreservedIn(routes[i].children,
                           ChildrenAt(exts, normalizedPath(routes[i])),
                           res[i].children)

\* C9: after each iteration and at the return, every static route, at any
\* depth, whose path chain the extension routes merged so far do not match is
\* at its position with all its fields and its subtree unchanged.
C9_UnmentionedPreserved ==
  mergePc \in {"loop", "returned"} =>
    PreservedIn(staticRoutes, SubSeq(extensionRoutes, 1, extIndex - 1), result)

C9_Witness ==
  /\ mergePc = "returned"
  /\ staticRoutes = <<B_p>>
  /\ extensionRoutes = <<E_p>>
  /\ Len(result[1].children) = 2
  /\ result[1].children[2] = B_p.children[2]
  /\ Len(result[1].children[1].children) = 2
  /\ result[1].children[1].children[1] = B_p.children[1].children[1]

\* The merged route of a matched pair whose extension route has a lazy
\* handler has that handler and neither Component nor loader.
LazyWinsPair(ext, merged) ==
  ext.lazy # UNDEF =>
    /\ merged.lazy = ext.lazy
    /\ merged.Component = UNDEF
    /\ merged.loader = UNDEF

\* LazyWinsPair for every matched pair of the merge of exts into routes, and
\* of the merges of their children.
RECURSIVE LazyWinsIn(_, _)
LazyWinsIn(routes, exts) ==
  \/ exts = << >>
  \/ LET ext == Head(exts)
         idx == findIndex(routes, normalizedPath(ext))
         next == mergeIteration(routes, ext)
     IN /\ idx # 0 =>
             /\ LazyWinsPair(ext, next[idx])
             /\ LazyWinsIn(routes[idx].children, ext.children)
        /\ LazyWinsIn(next, Tail(exts))

\* C10: in every iteration that matches an extension route with a lazy
\* handler, the merged route has the extension's lazy handler and neither
\* Component nor loader, and so have the merged routes of the matched pairs
\* below it.
C10_LazyWins ==
  [][(mergePc = "loop" /\ extIndex' = extIndex + 1) =>
       LET ext == extensionRoutes[extIndex]
           idx == findIndex(result, normalizedPath(ext))
       IN idx # 0 =>
            /\ LazyWinsPair(ext, result'[idx])
            /\ LazyWinsIn(result[idx].children, ext.children)]_vars

C10_Witness ==
  /\ mergePc = "returned"
  /\ staticRoutes = <<B_o>>
  /\ extensionRoutes = <<E_o_lazy>>
  /\ result[1].lazy = E_o_lazy.lazy
  /\ result[1].Component = UNDEF
  /\ result[1].loader = UNDEF
  /\ B_o.Component # UNDEF /\ B_o.loader # UNDEF

(***************************************************************************)
(* Properties of getComponentName (specification ResolverSpec).            *)
(***************************************************************************)
\* The non-empty segments of a path, with either separator.
PathSegments(path) == SplitSegments(ReplaceBackslashes(path))

\* The name the rules give a path of the segments `parts`.
NameBySegments(parts) ==
  IF parts = << >> THEN NULL
  ELSE LET stripped == StripExt(parts[Len(parts)])
       IN IF stripped = EMPTY THEN NULL
          ELSE IF stripped # STR_index THEN stripped
          ELSE IF Len(parts) >= 2 THEN parts[Len(parts) - 1]
          ELSE NULL

\* C16: the logical name of a path is the parent directory's name when the
\* extension-stripped file name is "index" (none without a parent segment),
\* otherwise the extension-stripped file name, and none for a path without
\* segments or with an empty stripped name; a/b/index.tsx gives b,
\* a/widget/widget.tsx widget, a/thing.tsx thing and index.tsx alone none.
C16_ResolverRules ==
  resolverPc = "returned" =>
    /\ resolvedName = NameBySegments(PathSegments(resolverPath))
    /\ resolverPath = Join(<<D_a, D_b, STR_index \o DOT \o STR_tsx>>, SLASH)
         => resolvedName = D_b
    /\ resolverPath = Join(<<D_a, STR_widget, STR_widget \o DOT \o STR_tsx>>, SLASH)
         => resolvedName = STR_widget
    /\ resolverPath = Join(<<D_a, STR_thing \o DOT \o STR_tsx>>, SLASH)
         => resolvedName = STR_thing
    /\ resolverPath = STR_index \o DOT \o STR_tsx => resolvedName = NULL

C16_Witness ==
  /\ resolverPc = "returned"
  /\ resolverPath = Join(<<D_a, D_b, STR_index \o DOT \o STR_tsx>>, SLASH)
  /\ resolvedName = D_b

(***************************************************************************)
(* Properties of collectComponentFiles (specification ScanSpec).           *)
(***************************************************************************)
\* The directories between the root and the file of a returned path.
DepthBelowRoot(path) == Len(PathSegments(path)) - Len(PathSegments(scanRoot)) - 1

\* The root of the structure lies on a cycle of scanned directories.
RootOnCycle == 1 \in ReachableDirs(scanFs, ScannedSubDirs(scanFs, 1), MaxDirs)

\* C17: on every structure, one with a directory cycle included, the scan
\* returns, and it returns no file whose directory is more than 20 levels
\* below the root.
C17_ScanBounded ==
  [][scanPc = "called" =>
       /\ scanPc' = "returned"
       /\ \A k \in 1..Len(scanned') : DepthBelowRoot(scanned'[k]) <= MaxScanDepth]_vars

C17_Witness ==
  /\ scanPc = "returned"
  /\ RootOnCycle
  /\ \E k \in 1..Len(scanned) : DepthBelowRoot(scanned[k]) = MaxScanDepth

\* The entries of directory d of the given kind that are neither hidden nor
\* named node_modules.
VisibleEntries(fsys, d, kind) ==
  IF ~fsys[d].readable THEN {}
  ELSE {fsys[d].entries[i] :
          i \in {j \in 1..Len(fsys[d].entries) :
                   /\ fsys[d].entries[j].kind = kind
                   /\ fsys[d].entries[j].name[1] # DOT[1]
                   /\ fsys[d].entries[j].name # STR_node_modules}}

\* The directories k levels below the root that are reachable through
\* visible directories, each with its path.
RECURSIVE DirsAtLevel(_, _)
DirsAtLevel(fsys, k) ==
  IF k = 0 THEN {<<1, scanRoot>>}
  ELSE UNION {{<<e.target, Resolve(x[2], e.name)>> : e \in VisibleEntries(fsys, x[1], "dir")} :
                x \in DirsAtLevel(fsys, k - 1)}

\* The visible files with a recognized extension in the readable directories
\* reachable through visible directories at most `limit` levels below the
\* root.
ReachableFiles(fsys, limit) ==
  UNION {{Resolve(x[2], e.name) :
            e \in {f \in VisibleEntries(fsys, x[1], "file") :
                     Extname(f.name) \in COMPONENT_EXT_SET}} :
           x \in UNION {DirsAtLevel(fsys, k) : k \in 0..limit}}

ScannedSet == {scanned[k] : k \in 1..Len(scanned)}

\* C18 as stated: the scan returns exactly the visible files with a recognized
\* extension that are reachable from the root through readable, visible
\* directories, however deep.
C18_ScanReturnsReachable ==
  scanPc = "returned" => ScannedSet = ReachableFiles(scanFs, MaxScanDepth + 1)

\* C18, amended: the scan returns, once each, exactly those files whose
\* directory is at most 20 levels below the root; an unreadable directory
\* contributes no file and its siblings are scanned.
C18_ScanReturnsReachableWithinDepth ==
  scanPc = "returned" =>
    /\ ScannedSet = ReachableFiles(scanFs, MaxScanDepth)
    /\ Len(scanned) = Cardinality(ScannedSet)

C18_Witness ==
  /\ scanPc = "returned"
  /\ Len(scanFs[1].entries) = 2
  /\ scanFs[1].entries[1].target = 2 /\ ~scanFs[2].readable
  /\ scanFs[1].entries[2].target = 3 /\ scanFs[3].readable
  /\ scanned = <<Resolve(Resolve(scanRoot, STR_e), STR_f_tsx)>>

(***************************************************************************)
(* Further properties of mergeExtensionRoutes (specification MergeSpec).   *)
(***************************************************************************)
\* C19: a merge with an empty extension list returns the base list, with the
\* same nodes in the same order.
C19_EmptyExtensionsIdentity ==
  (mergePc = "returned" /\ extensionRoutes = << >>) => result = staticRoutes

C19_Witness ==
  /\ mergePc = "returned"
  /\ extensionRoutes = << >>
  /\ Len(staticRoutes) = MaxRoutes
  /\ result = staticRoutes

(***************************************************************************)
(* Further properties of the override registry (specification Spec).       *)
(***************************************************************************)
\* The file names index.<ext> of the recognized extensions.
BarrelFileNames == {STR_index \o e : e \in COMPONENT_EXT_SET}

\* C20: after the initial scan and after every rebuild the registry has no
\* key "index" and no value whose file name is index.<ext>.
C20_NoBarrelInRegistry ==
  /\ STR_index \notin DOMAIN overridesByName
  /\ \A n \in DOMAIN overridesByName :
       Basename(overridesByName[n]) \notin BarrelFileNames

C20_Witness ==
  /\ TimerCallbackRan
  /\ F_x_index_tsx \in disk
  /\ DOMAIN overridesByName # {}
  /\ STR_index \notin DOMAIN overridesByName

(***************************************************************************)
(* Properties of the watcher and of the server reference (specification    *)
(* Spec).                                                                  *)
(***************************************************************************)
\* C21: however often configureServer is called, fs.watch is called at most
\* once; once the watcher exists it stays and every change of the override
\* tree is delivered to its callback; every message the coordinator sends goes
\* to the server of the latest configureServer call, and modules are
\* invalidated only when there is such a server.
C21_OneWatcherLatestServer ==
  [][/\ watchers' <= 1
     /\ watcherCreated => watcherCreated'
     /\ (watcherCreated /\ disk' # disk) => fsEvent' # NULL
     /\ wsOut' # NoMsg => (wsOut'.to = currentServer' /\ currentServer' # 0)
     /\ invalidated' # {} => currentServer' # 0]_vars

C21_Witness ==
  /\ watchers = 1
  /\ currentServer = 2
  /\ fsEvent # NULL
  /\ wsOut.type = "update"
  /\ wsOut.to = 2

\* The step is a watcher event for a file that passes the filter, was created
\* or deleted, and is not classified as a modification.
CreateOrDeleteEvent ==
  /\ fsEvent' # NULL
  /\ disk' # disk
  /\ eventFacts[fsEvent'].passes
  /\ ~(fsEvent' \in disk' /\ eventFacts[fsEvent'].fullPath \in knownOverrideFiles)

\* C22: the step in which server.restart() fails logs the failure, sends
\* nothing, arms no timer and leaves the registry, the known set and the server
\* reference as the preceding rebuild left them; whatever failed before, a
\* create or delete event arms a timer, and an armed timer's callback rebuilds
\* the registry from the disk and, with a server, calls restart() again.
C22_RestartFailureContained ==
  [][/\ errorLogged' =>
          /\ awaiting' = awaiting - 1
          /\ wsOut' = NoMsg
          /\ invalidated' = {}
          /\ UNCHANGED <<overridesByName, knownOverrideFiles, debounceTimer, timerQueue,
                         currentServer, watcherCreated, watchers, disk>>
     /\ CreateOrDeleteEvent =>
          /\ debounceTimer' = "pending"
          /\ timerQueue' # << >>
          /\ timerQueue'[Len(timerQueue')].fullPath = eventFacts[fsEvent'].fullPath
     /\ TimerCallbackRan' =>
          /\ \E listing \in DOMAIN scanResults[disk] :
               overridesByName' = scanResults[disk][listing].overrides
          /\ currentServer # 0 => awaiting' = awaiting + 1]_vars

\* A restart has failed with nothing else in flight: no timer is armed, the
\* registry holds the rebuilt entry, and the server is the one restart() was
\* called on.
C22_Witness ==
  /\ errorLogged
  /\ awaiting = 0
  /\ timerQueue = << >>
  /\ debounceTimer = "fired"
  /\ DOMAIN overridesByName # {}
  /\ wsOut = NoMsg

(***************************************************************************)
(* Properties of in-place modifications (specification Spec).              *)
(***************************************************************************)
\* C23 as stated: on an event for an existing, known override file the
\* coordinator sends no message and invalidates no module, and handleHotUpdate
\* leaves Vite's own update of that file in place.
C23_ModificationIgnored ==
  [][InPlaceEdit =>
       /\ wsOut' = NoMsg
       /\ invalidated' = {}
       /\ handleHotUpdate(knownOverrideFiles', Resolve(componentsDir, fsEvent')) = UNDEFINED]_vars

(***************************************************************************)
(* Properties of the rebuild as readers see it (specification Spec).       *)
(***************************************************************************)
\* C24 as stated: in no state that a module-load request or a watcher event
\* can observe is the registry or the known set empty while the override tree
\* on disk is non-empty.
C24_NeverEmptyWhileTreeNonEmpty ==
  disk # {} => (DOMAIN overridesByName # {} /\ knownOverrideFiles # {})

\* C24, amended: the registry and the known set change only in the turn of a
\* timer callback, and that one step takes them from their previous contents to
\* the complete scan of the tree as it is on disk; no state in between exists
\* for a request or an event to observe.
C24_RebuildInOneStep ==
  [][(overridesByName' # overridesByName \/ knownOverrideFiles' # knownOverrideFiles) =>
       /\ TimerCallbackRan'
       /\ \E listing \in DOMAIN scanResults[disk'] :
            /\ overridesByName' = scanResults[disk'][listing].overrides
            /\ knownOverrideFiles' = scanResults[disk'][listing].known]_vars

C24_Witness ==
  /\ TimerCallbackRan
  /\ Cardinality(disk) = 2
  /\ Cardinality(DOMAIN overridesByName) = 2
  /\ Cardinality(knownOverrideFiles) = 2

(***************************************************************************)
(* Properties relating the registry, the known set and getComponentName    *)
(* (specification Spec).                                                   *)
(***************************************************************************)
\* C25 as stated: in every state knownOverrideFiles is exactly the set of the
\* paths that are values of overridesByName.
C25_KnownIsRegistryValues == knownOverrideFiles = MapValues(overridesByName)

\* The request of the last step is for a non-barrel upstream module.
NonBarrelUpstreamRequest ==
  /\ lastLoad.path # NULL
  /\ inDashboardSrc(lastLoad.path)
  /\ ~isBarrelRequest(lastLoad.path)

\* Every key of the registry is getComponentName of the path stored under it.
KeysAreResolverNames ==
  \A n \in DOMAIN overridesByName : getComponentName(overridesByName[n]) = n

\* C26 as stated: the keys are the resolver's names, and a non-barrel file F of
\* the override tree is served for a non-barrel upstream module U exactly when
\* the resolver gives F and U the same name.
C26_ServedIffSameName ==
  /\ KeysAreResolverNames
  /\ NonBarrelUpstreamRequest =>
       \A F \in ScannedEntries :
         lastLoad.result = F <=> getComponentName(F) = requestFacts[lastLoad.path].componentName

\* C26, amended: the keys are the resolver's names; a file is served for U only
\* if the resolver gives both the same name, and the registry's file of that
\* name is served for every non-barrel upstream U that the hook's filter
\* matches.
C26_ServedOnlyIfSameName ==
  /\ KeysAreResolverNames
  /\ lastLoad.result # NULL =>
       getComponentName(lastLoad.result) = requestFacts[lastLoad.path].componentName
  /\ (NonBarrelUpstreamRequest /\ componentFilter(lastLoad.path)) =>
       \A n \in DOMAIN overridesByName :
         n = requestFacts[lastLoad.path].componentName => lastLoad.result = overridesByName[n]

\* A file is served while another file of the same name on disk is not.
C26_Witness ==
  /\ lastLoad.result = Resolve(componentsDir, F_b_x_tsx)
  /\ NonBarrelUpstreamRequest
  /\ F_a_x_tsx \in disk
  /\ getComponentName(Resolve(componentsDir, F_a_x_tsx)) = requestFacts[lastLoad.path].componentName

(***************************************************************************)
(* Positions in the result of mergeExtensionRoutes (specification          *)
(* MergeSpec).                                                             *)
(***************************************************************************)
NormalizedPaths(routes) == {normalizedPath(routes[i]) : i \in 1..Len(routes)}

\* The normalized extension paths that no static route has.
NewPaths == NormalizedPaths(extensionRoutes) \ NormalizedPaths(staticRoutes)

\* The first static route with the normalized path of some extension route.
MatchedStatic(i) ==
  \E k \in 1..Len(extensionRoutes) :
    /\ normalizedPath(extensionRoutes[k]) = normalizedPath(staticRoutes[i])
    /\ \A j \in 1..(i - 1) : normalizedPath(staticRoutes[j]) # normalizedPath(staticRoutes[i])

\* The position in extensionRoutes of the first route with normalized path pth.
FirstExtension(pth) ==
  CHOOSE k \in 1..Len(extensionRoutes) :
    /\ normalizedPath(extensionRoutes[k]) = pth
    /\ \A j \in 1..(k - 1) : normalizedPath(extensionRoutes[j]) # pth

\* C27: in the returned list every static route is at its index, replaced by
\* the merged route if it is the first with the path of an extension route and
\* untouched otherwise; behind them comes one route per normalized extension
\* path that no static route has, in the order in which extensionRoutes first
\* names those paths.
C27_MergePositions ==
  mergePc = "returned" =>
    /\ Len(result) = Len(staticRoutes) + Cardinality(NewPaths)
    /\ \A i \in 1..Len(staticRoutes) :
         /\ normalizedPath(result[i]) = normalizedPath(staticRoutes[i])
         /\ IF MatchedStatic(i)
            THEN \E k \in 1..Len(extensionRoutes) :
                   normalizedPath(extensionRoutes[k]) = normalizedPath(staticRoutes[i])
                   /\ (extensionRoutes[k].lazy # UNDEF => result[i].lazy # staticRoutes[i].lazy)
            ELSE result[i] = staticRoutes[i]
    /\ \A k \in (Len(staticRoutes) + 1)..Len(result) :
         /\ normalizedPath(result[k]) \in NewPaths
         /\ \A j \in (Len(staticRoutes) + 1)..(k - 1) :
              FirstExtension(normalizedPath(result[j])) < FirstExtension(normalizedPath(result[k]))

\* One static route is replaced in place, the other kept, and one new route
\* is appended.
C27_Witness ==
  /\ mergePc = "returned"
  /\ staticRoutes = <<B_p, B_o>>
  /\ extensionRoutes = <<E_q, E_p>>
  /\ Len(result) = 3
  /\ result[1] # B_p /\ result[1].path = P_p
  /\ result[2] = B_o
  /\ result[3] = E_q

(***************************************************************************)
(* The arguments of mergeExtensionRoutes in memory (specification          *)
(* MergeSpec).                                                             *)
(***************************************************************************)
\* C28: after the call every array and every route object that existed at the
\* call is as it was: the two argument arrays, the route objects of both trees
\* and their children arrays; and the returned array holds the routes the
\* merge computes.
C28_InputsNotMutated ==
  mergePc = "returned" =>
    /\ \A a \in 1..Len(InputHeap.heap) : heap[a] = InputHeap.heap[a]
    /\ DerefList(heap, staticRef) = staticRoutes
    /\ DerefList(heap, extRef) = extensionRoutes
    /\ DerefList(heap, resultRef) = result

\* A merge that matched a static route with children and changed its handlers
\* and children in the returned tree has left the static object alone.
C28_Witness ==
  /\ mergePc = "returned"
  /\ staticRoutes = <<B_p>>
  /\ extensionRoutes = <<E_p>>
  /\ resultRef # staticRef
  /\ heap[resultRef].items[1] # heap[staticRef].items[1]
  /\ heap[heap[resultRef].items[1]].lazy # heap[heap[staticRef].items[1]].lazy
  /\ heap[heap[resultRef].items[1]].children # heap[heap[staticRef].items[1]].children
  /\ DerefList(heap, staticRef) = <<B_p>>

(***************************************************************************)
(* Properties of the hooks with an empty registry (specification Spec).    *)
(***************************************************************************)
\* C29: a request answered while the registry is empty is declined by the
\* entry hook and by the component hook.
C29_EmptyRegistryPassesThrough ==
  (lastLoad.path # NULL /\ DOMAIN overridesByName = {}) =>
    (lastLoad.entry = NULL /\ lastLoad.result = NULL)

\* The dist entry is requested after a rebuild that left the registry empty.
C29_Witness ==
  /\ lastLoad.path \in EntryRequests
  /\ inDashboardDist(lastLoad.path)
  /\ DOMAIN overridesByName = {}
  /\ debounceTimer = "fired"
  /\ lastLoad.entry = NULL
  /\ lastLoad.result = NULL

====
